---- MODULE Spec2Model ----
(***************************************************************************)
(* The Redis secondary-storage backend (RedisStorage): construction from a *)
(* URL and an attribute map, the lazy connect() with its m_connected /     *)
(* m_invalid flags, and get / put / remove against a Redis server whose    *)
(* replies may be missing, errors, or of an unexpected type.               *)
(*                                                                         *)
(* Strings are sequences of one-character strings.  An optional value is a *)
(* sequence of length at most one: << >> is nullopt, <<x>> holds x.        *)
(***************************************************************************)
EXTENDS Integers, Sequences, FiniteSets, TLC

\* ------------------------------------------------------------------------
\* Bounds of the model
\* ------------------------------------------------------------------------

\* longest URL suffix (the part after "redis://") that is enumerated
MaxSuffixLen == 3

\* characters URL suffixes are built from: a letter, a digit, ':' and '/'
UrlChars == {"h", "1", ":", "/"}

\* digests the server holds keys for, and the values stored under them
Digests == {"d1", "d2"}

Values == {"v1", "v2"}

\* ------------------------------------------------------------------------
\* Program constants
\* ------------------------------------------------------------------------

\* port used when the URL names none
DefaultPort == 6379

\* largest value of a 32-bit int (std::stoi reports out_of_range above it)
IntMax == 2147483647

\* the scheme prefix connect() strips from m_url, kept as one token
prefix == "redis://"

\* ------------------------------------------------------------------------
\* Strings and their conversions
\* ------------------------------------------------------------------------

DigitVal ==
  [c \in {"0", "1", "2", "3", "4", "5", "6", "7", "8", "9"} |->
     CASE c = "0" -> 0 [] c = "1" -> 1 [] c = "2" -> 2 [] c = "3" -> 3
       [] c = "4" -> 4 [] c = "5" -> 5 [] c = "6" -> 6 [] c = "7" -> 7
       [] c = "8" -> 8 [] c = "9" -> 9]

IsDigit(c) == c \in DOMAIN DigitVal

\* all strings over alphabet of length at most n
StringsUpTo(alphabet, n) == UNION {[1..k -> alphabet] : k \in 0..n}

\* length of the longest run of digits that starts s
RECURSIVE DigitRun(_)
DigitRun(s) ==
  IF s = << >> \/ ~IsDigit(Head(s)) THEN 0 ELSE 1 + DigitRun(Tail(s))

\* decimal value of a string of digits
RECURSIVE DigitsValue(_)
DigitsValue(s) ==
  IF s = << >> THEN 0
  ELSE 10 * DigitsValue(SubSeq(s, 1, Len(s) - 1)) + DigitVal[s[Len(s)]]

\* the decimal digits of a natural number
RECURSIVE DecimalString(_)
DecimalString(n) ==
  LET d == CHOOSE c \in DOMAIN DigitVal : DigitVal[c] = n % 10
  IN  IF n < 10 THEN << d >> ELSE DecimalString(n \div 10) \o << d >>

\* std::stoi: optional sign, then the leading digits; trailing characters
\* are ignored.  ok = FALSE stands for the exception it throws
\* (std::invalid_argument when there is no digit, std::out_of_range when
\* the value does not fit an int).
stoi(s) ==
  LET signed == s # << >> /\ Head(s) \in {"+", "-"}
      body   == IF signed THEN Tail(s) ELSE s
      n      == DigitRun(body)
      mag    == DigitsValue(SubSeq(body, 1, n))
      val    == IF signed /\ Head(s) = "-" THEN 0 - mag ELSE mag
  IN  IF n = 0 THEN [ok |-> FALSE, val |-> 0]
      ELSE IF val > IntMax \/ val < 0 - IntMax - 1 THEN [ok |-> FALSE, val |-> 0]
      ELSE [ok |-> TRUE, val |-> val]

\* C++ integer division and remainder truncate towards zero
CDiv(a, b) == IF a >= 0 THEN a \div b ELSE 0 - ((0 - a) \div b)

CMod(a, b) == a - b * CDiv(a, b)

\* milliseconds_to_timeval: << >> stands for the exception of std::stoi
milliseconds_to_timeval(msec) ==
  LET ms == stoi(msec)
  IN  IF ~ms.ok THEN << >>
      ELSE << [tv_sec |-> CDiv(ms.val, 1000),
               tv_usec |-> CMod(ms.val, 1000) * 1000] >>

\* ------------------------------------------------------------------------
\* Attribute maps
\* ------------------------------------------------------------------------

\* attributes.find(key): << >> when the key is absent
Find(attributes, key) ==
  IF key \in DOMAIN attributes THEN << attributes[key] >> ELSE << >>

\* parse_connect_timeout / parse_operation_timeout: [threw, val] where val
\* is the optional timeval
parse_timeout(attributes, key) ==
  LET it == Find(attributes, key)
  IN  IF it = << >> THEN [threw |-> FALSE, val |-> << >>]
      ELSE LET tv == milliseconds_to_timeval(it[1])
           IN  [threw |-> tv = << >>, val |-> tv]

parse_connect_timeout(attributes) == parse_timeout(attributes, "connect-timeout")

parse_operation_timeout(attributes) ==
  parse_timeout(attributes, "operation-timeout")

parse_username(attributes) == Find(attributes, "username")

parse_password(attributes) == Find(attributes, "password")

\* ------------------------------------------------------------------------
\* State
\* ------------------------------------------------------------------------

VARIABLES
  life,                 \* "unconstructed", "alive", "ctor_threw", "crashed", "destroyed"
  url,                  \* constructor argument: the URL
  attributes,           \* constructor argument: the attribute map
  m_url,                \* RedisStorage fields
  m_connect_timeout,
  m_operation_timeout,
  m_username,
  m_password,
  m_context,            \* "null", "ok" (usable context) or "err" (context with err set)
  m_connected,
  m_invalid,
  store,                \* the server's key space: key -> optional value
  last,                 \* what the most recent call did and returned
  authFailed,           \* history: an AUTH of this instance has failed
  clients,              \* two more clients of the same server, each inside a put()
  hash,                 \* a struct hash, the algorithm in use and what was fed to it
  env                   \* the most recent call of envtoconfitems_get or _count

vars == << life, url, attributes, m_url, m_connect_timeout, m_operation_timeout,
           m_username, m_password, m_context, m_connected, m_invalid, store,
           last, authFailed, clients, hash, env >>

\* what lies outside this instance and its server
others == << clients, hash, env >>

\* this instance
instance == << life, url, attributes, m_url, m_connect_timeout,
               m_operation_timeout, m_username, m_password, m_context,
               m_connected, m_invalid, last, authFailed >>

config == << url, attributes, m_url, m_connect_timeout, m_operation_timeout,
             m_username, m_password >>

\* ------------------------------------------------------------------------
\* The URL
\* ------------------------------------------------------------------------

\* Util::starts_with(m_url, prefix)
starts_with(u) == u # << >> /\ Head(u) = prefix

\* position of the last ':' of s, 0 when there is none
\* (std::find over the reversed string, then .base())
RECURSIVE LastColon(_)
LastColon(s) ==
  IF s = << >> THEN 0
  ELSE IF s[Len(s)] = ":" THEN Len(s)
  ELSE LastColon(SubSeq(s, 1, Len(s) - 1))

\* the host / port / sock split of connect()
SplitUrl(suffix) ==
  LET si == LastColon(suffix)
  IN  IF si = 0
      THEN IF suffix # << >> /\ suffix[1] = "/"
           THEN [host |-> << >>, port |-> << >>, sock |-> suffix]
           ELSE [host |-> suffix, port |-> << >>, sock |-> << >>]
      ELSE [host |-> SubSeq(suffix, 1, si - 1),
            port |-> SubSeq(suffix, si + 1, Len(suffix)),
            sock |-> << >>]

\* ------------------------------------------------------------------------
\* The server and the client library
\* ------------------------------------------------------------------------

\* get_key_string that leaves the digest out of the key
get_key_string_no_digest(digest) == << "ccache", ":" >>

\* get_key_string: "ccache" ':' digest
get_key_string(digest) == << "ccache", ":", digest >>

Keys == {get_key_string(d) : d \in Digests}

NoReply == [type |-> "NULL", str |-> << >>, integer |-> 0]

\* how the server (or the connection) treats one command
ReplyModes == {"ok", "none", "error", "odd"}

\* what a healthy server answers, and the key space afterwards
ServerExec(cmd, key, value, st) ==
  CASE cmd = "GET" ->
         [reply |-> IF st[key] = << >>
                    THEN [type |-> "NIL", str |-> << >>, integer |-> 0]
                    ELSE [type |-> "STRING", str |-> st[key], integer |-> 0],
          store |-> st]
    [] cmd = "EXISTS" ->
         [reply |-> [type |-> "INTEGER", str |-> << >>,
                     integer |-> IF st[key] = << >> THEN 0 ELSE 1],
          store |-> st]
    [] cmd = "SET" ->
         [reply |-> [type |-> "STATUS", str |-> << >>, integer |-> 0],
          store |-> [st EXCEPT ![key] = << value >>]]
    [] cmd = "DEL" ->
         [reply |-> [type |-> "INTEGER", str |-> << >>,
                     integer |-> IF st[key] = << >> THEN 0 ELSE 1],
          store |-> [st EXCEPT ![key] = << >>]]
    [] cmd = "AUTH" ->
         [reply |-> [type |-> "STATUS", str |-> << >>, integer |-> 0],
          store |-> st]

\* redisCommand on context ctx: a context with err set answers nothing; a
\* lost reply sets err on the context.  The operations call it only after
\* connect() returned true, when m_context is "ok" or "err".
redisCommand(ctx, cmd, key, value, st, mode) ==
  IF ctx # "ok" \/ mode = "none"
  THEN [reply |-> NoReply, ctx |-> IF ctx = "null" THEN "null" ELSE "err", store |-> st]
  ELSE IF mode = "error"
  THEN [reply |-> [type |-> "ERROR", str |-> << >>, integer |-> 0],
        ctx |-> ctx, store |-> st]
  ELSE IF mode = "odd"
  THEN [reply |-> [type |-> "ARRAY", str |-> << >>, integer |-> 0],
        ctx |-> ctx, store |-> st]
  ELSE LET x == ServerExec(cmd, key, value, st)
       IN  [reply |-> x.reply, ctx |-> ctx, store |-> x.store]

Cmd(c, k) == [cmd |-> c, key |-> k]

\* ------------------------------------------------------------------------
\* connect()
\* ------------------------------------------------------------------------

\* What connect() meets outside the program:
\*   reconnect  redisReconnect returns REDIS_OK
\*   conn       what redisConnect* returns: no context, a context with err
\*              set, or a usable context
\*   deref      what reading m_context->errstr through a null m_context does
\*   auth       how the AUTH command is answered
ConnectEnv ==
  [reconnect : BOOLEAN, conn : {"null", "err", "ok"},
   deref : {"crash", "continue"}, auth : {"ok", "none", "error"}]

\* the outcome of one connect() call: how it ended ("returned", "threw",
\* "crashed"), its return value, the fields it leaves behind, and what it
\* did on the way
ConnectResult(how, ret, ctx, connected, invalid, attempts, reconnects, sent, cause) ==
  [how |-> how, ret |-> ret, ctx |-> ctx, connected |-> connected,
   invalid |-> invalid, attempts |-> attempts, reconnects |-> reconnects,
   sent |-> sent, cause |-> cause]

\* connect_early without the m_invalid test
connect_early_retry(connected, invalid) ==
  IF connected THEN "true" ELSE "go"

\* connect_early without the m_connected test
connect_early_always(connected, invalid) ==
  IF invalid THEN "false" ELSE "go"

\* the two early returns: "true", "false", or "go" to continue
connect_early(connected, invalid) ==
  IF connected THEN "true" ELSE IF invalid THEN "false" ELSE "go"

\* the flags after redisConnect* returned a context without err:
\* m_connected is set before AUTH is tried
connect_established(invalid) == [connected |-> TRUE, invalid |-> invalid]

\* connect_failed without marking the instance invalid
connect_failed_retry(connected) == [connected |-> connected, invalid |-> FALSE]

\* the flags after redisConnect* returned no context or one with err
connect_failed(connected) == [connected |-> connected, invalid |-> TRUE]

\* the AUTH exchange on a freshly connected context
connect_auth(e, reconnects) ==
  LET est      == connect_established(m_invalid)
      username == IF m_username # << >> THEN m_username[1] ELSE "default"
      r        == redisCommand("ok", "AUTH", << >>, m_password[1], store, e.auth)
      failed   == r.reply.type = "NULL" \/ r.reply.type = "ERROR"
  IN  ConnectResult("returned", ~(est.invalid \/ failed), r.ctx, est.connected,
                    est.invalid \/ failed, 1, reconnects,
                    << Cmd("AUTH", << >>) >>,
                    IF failed THEN "auth" ELSE "none")

\* from the result of redisConnect* to the end of connect()
connect_finish(e, reconnects) ==
  IF e.conn = "null" \/ e.conn = "err"
  THEN IF e.conn = "null" /\ e.deref = "crash"
       THEN ConnectResult("crashed", FALSE, "null", m_connected, m_invalid,
                          1, reconnects, << >>, "none")
       ELSE LET f == connect_failed(m_connected)
            IN  ConnectResult("returned", FALSE, e.conn, f.connected, f.invalid,
                              1, reconnects, << >>, "connect")
  ELSE IF m_password # << >>
       THEN connect_auth(e, reconnects)
       ELSE LET est == connect_established(m_invalid)
            IN  ConnectResult("returned", TRUE, "ok", est.connected, est.invalid,
                              1, reconnects, << >>, "none")

\* URL handling and the fresh connection; the old context, if any, is gone
connect_fresh(e, reconnects) ==
  IF ~starts_with(m_url)
  THEN ConnectResult("crashed", FALSE, "null", m_connected, m_invalid,
                     0, reconnects, << >>, "none")
  ELSE
    LET u == SplitUrl(Tail(m_url))
    IN  IF u.host # << >>
        THEN LET p == IF u.port = << >> THEN [ok |-> TRUE, val |-> DefaultPort]
                      ELSE stoi(u.port)
             IN  IF ~p.ok
                 THEN ConnectResult("threw", FALSE, "null", m_connected, m_invalid,
                                    0, reconnects, << >>, "none")
                 ELSE connect_finish(e, reconnects)
        ELSE IF u.sock # << >>
        THEN connect_finish(e, reconnects)
        ELSE ConnectResult("returned", FALSE, "null", m_connected, TRUE,
                           0, reconnects, << >>, "url")

connect(e) ==
  LET early == connect_early(m_connected, m_invalid)
  IN  IF early # "go"
      THEN ConnectResult("returned", early = "true", m_context, m_connected,
                         m_invalid, 0, 0, << >>, "none")
      ELSE IF m_context # "null"
      THEN IF e.reconnect
           THEN ConnectResult("returned", TRUE, "ok", TRUE, m_invalid,
                              0, 1, << >>, "none")
           ELSE connect_fresh(e, 1)
      ELSE connect_fresh(e, 0)

\* disconnect(): only the flag changes
disconnect(connected) == FALSE

\* ------------------------------------------------------------------------
\* Inputs
\* ------------------------------------------------------------------------

\* the URLs a backend is constructed with: the scheme, then any suffix
Urls == {<< prefix >> \o s : s \in StringsUpTo(UrlChars, MaxSuffixLen)}

\* the attribute maps a backend is constructed with: none, each known
\* key with a good value, the timeouts with a value that is no number, the
\* password with a username, and a key the backend does not know
AttributeMaps ==
  { [k \in {} |-> << >>],
    "connect-timeout" :> << "2", "5", "0", "0" >>,
    "connect-timeout" :> << "h" >>,
    "operation-timeout" :> << "7" >>,
    "operation-timeout" :> << "h", "1" >>,
    "password" :> << "p" >>,
    ("username" :> << "u" >>) @@ ("password" :> << "p" >>),
    "cache-size" :> << "9" >> }

\* the digests the caller of this instance asks about
Asked == {"d1"}

\* ------------------------------------------------------------------------
\* The hasher
\* ------------------------------------------------------------------------

\* the algorithms hash_checksum selects
Algorithms == {"blake2b", "xxh64", "md4"}

\* bytes per block of the compression function
BlockSize == 2

\* the inputs of hash_string
Chunks == { << >>, << "a" >>, << "b" >>, << "a", "b" >>, << "b", "a", "a" >> }

\* most hash_string calls between two resets
MaxChunks == 3

\* a hasher that has absorbed nothing: the blocks compressed so far, the
\* bytes waiting for a full block, and the byte count
hash_fresh == [blocks |-> << >>, buf |-> << >>, size |-> 0]

\* hash_update that compresses what is left of every call's input at once
RECURSIVE hash_update_unbuffered(_, _)
hash_update_unbuffered(st, bytes) ==
  IF bytes = << >>
  THEN IF st.buf = << >> THEN st
       ELSE [st EXCEPT !.blocks = Append(@, st.buf), !.buf = << >>]
  ELSE LET b == Append(st.buf, Head(bytes))
       IN  hash_update_unbuffered(
             IF Len(b) = BlockSize
             THEN [blocks |-> Append(st.blocks, b), buf |-> << >>,
                   size |-> st.size + 1]
             ELSE [st EXCEPT !.buf = b, !.size = @ + 1],
             Tail(bytes))

\* absorb bytes: each byte joins the waiting bytes, and a full block is
\* compressed
RECURSIVE hash_update(_, _)
hash_update(st, bytes) ==
  IF bytes = << >> THEN st
  ELSE LET b == Append(st.buf, Head(bytes))
       IN  hash_update(
             IF Len(b) = BlockSize
             THEN [blocks |-> Append(st.blocks, b), buf |-> << >>,
                   size |-> st.size + 1]
             ELSE [st EXCEPT !.buf = b, !.size = @ + 1],
             Tail(bytes))

\* finalize: the digest of what was absorbed, computed on a copy.  The
\* digest is kept as the term the algorithm is applied to.
hash_final(alg, st) == [alg |-> alg, blocks |-> st.blocks, tail |-> st.buf]

\* the string hash_result returns: the digest, '-', the byte count
hash_result_string(alg, st) ==
  << hash_final(alg, st) >> \o << "-" >> \o DecimalString(st.size)

\* hash_after_result of a hasher that compresses the waiting bytes in place
hash_after_result_flushed(st) ==
  IF st.buf = << >> THEN st
  ELSE [st EXCEPT !.blocks = Append(@, st.buf), !.buf = << >>]

\* hash_after_result of a hasher that pads and compresses in place
hash_after_result_padded(st) ==
  [st EXCEPT !.blocks = Append(@, Append(st.buf, "pad")), !.buf = << >>]

\* the hasher after hash_result: as it was
hash_after_result(st) == st

\* the struct hash after hash_init, before an algorithm is selected:
\*   chunks    the inputs of hash_string since the last reset
\*   observed  hash_result was called since the last reset
\*   between   hash_string was called after a hash_result since the last reset
\*   prevop, lastop  the two most recent calls
\*   result    what the most recent hash_result returned
hash_init ==
  [alg |-> "unset", st |-> hash_fresh, chunks |-> << >>, observed |-> FALSE,
   between |-> FALSE, prevop |-> "none", lastop |-> "init", result |-> << >>]

\* ------------------------------------------------------------------------
\* The table of environment variable names
\* ------------------------------------------------------------------------

\* the code of a character in the execution character set; "0xFF" is the
\* character with code 255
Ord(c) ==
  CASE
    c = "2" -> 50 []
    c = "A" -> 65 []
    c = "B" -> 66 []
    c = "C" -> 67 []
    c = "D" -> 68 []
    c = "E" -> 69 []
    c = "F" -> 70 []
    c = "G" -> 71 []
    c = "H" -> 72 []
    c = "I" -> 73 []
    c = "K" -> 75 []
    c = "L" -> 76 []
    c = "M" -> 77 []
    c = "N" -> 78 []
    c = "O" -> 79 []
    c = "P" -> 80 []
    c = "R" -> 82 []
    c = "S" -> 83 []
    c = "T" -> 84 []
    c = "U" -> 85 []
    c = "V" -> 86 []
    c = "X" -> 88 []
    c = "Y" -> 89 []
    c = "Z" -> 90 []
    c = "_" -> 95 []
    c = "c" -> 99 []
    c = "0xFF" -> 255

\* asso_values, indexed from 0 in the code: asso_values[i] is AssoValues[i + 1]
AssoValues ==
  <<
     56, 56, 56, 56, 56, 56, 56, 56, 56, 56,
     56, 56, 56, 56, 56, 56, 56, 56, 56, 56,
     56, 56, 56, 56, 56, 56, 56, 56, 56, 56,
     56, 56, 56, 56, 56, 56, 56, 56, 56, 56,
     56, 56, 56, 56, 56, 56, 56, 56, 56, 56,
     56, 56, 56, 56, 56, 56, 56, 56, 56, 56,
     56, 56, 56, 56, 56, 56,  5,  0,  0,  5,
     40, 56, 20,  5,  0, 56, 20,  5,  0, 15,
      5, 10, 15, 15, 25,  5, 25, 56, 56, 56,
     56, 56, 56, 56, 56, 56, 56, 56, 56, 56,
     56, 56, 56, 56, 56, 56, 56, 56, 56, 56,
     56, 56, 56, 56, 56, 56, 56, 56, 56, 56,
     56, 56, 56, 56, 56, 56, 56, 56, 56, 56,
     56, 56, 56, 56, 56, 56, 56, 56, 56, 56,
     56, 56, 56, 56, 56, 56, 56, 56, 56, 56,
     56, 56, 56, 56, 56, 56, 56, 56, 56, 56,
     56, 56, 56, 56, 56, 56, 56, 56, 56, 56,
     56, 56, 56, 56, 56, 56, 56, 56, 56, 56,
     56, 56, 56, 56, 56, 56, 56, 56, 56, 56,
     56, 56, 56, 56, 56, 56, 56, 56, 56, 56,
     56, 56, 56, 56, 56, 56, 56, 56, 56, 56,
     56, 56, 56, 56, 56, 56, 56, 56, 56, 56,
     56, 56, 56, 56, 56, 56, 56, 56, 56, 56,
     56, 56, 56, 56, 56, 56, 56, 56, 56, 56,
     56, 56, 56, 56, 56, 56, 56, 56, 56, 56,
     56, 56, 56, 56, 56, 56, 56 >>

asso_values(i) == AssoValues[i + 1]

MIN_WORD_LENGTH == 2

MAX_WORD_LENGTH == 18

MAX_HASH_VALUE == 55

\* wordlist, indexed from 0 in the code: wordlist[key] is WordList[key + 1]
WordList ==
  <<
     [env_name |-> << >>, conf_name |-> ""],
     [env_name |-> << >>, conf_name |-> ""],
     [env_name |-> << "C", "C" >>, conf_name |-> "compiler"],
     [env_name |-> << "D", "I", "R" >>, conf_name |-> "cache_dir"],
     [env_name |-> << "C", "P", "P", "2" >>, conf_name |-> "run_second_cpp"],
     [env_name |-> << >>, conf_name |-> ""],
     [env_name |-> << "D", "I", "R", "E", "C", "T" >>, conf_name |-> "direct_mode"],
     [env_name |-> << "D", "I", "S", "A", "B", "L", "E" >>, conf_name |-> "disable"],
     [env_name |-> << "C", "O", "M", "P", "I", "L", "E", "R" >>, conf_name |-> "compiler"],
     [env_name |-> << "P", "A", "T", "H" >>, conf_name |-> "path"],
     [env_name |-> << >>, conf_name |-> ""],
     [env_name |-> << "P", "R", "E", "F", "I", "X" >>, conf_name |-> "prefix_command"],
     [env_name |-> << "M", "A", "X", "S", "I", "Z", "E" >>, conf_name |-> "max_size"],
     [env_name |-> << "M", "A", "X", "F", "I", "L", "E", "S" >>, conf_name |-> "max_files"],
     [env_name |-> << >>, conf_name |-> ""],
     [env_name |-> << "P", "R", "E", "F", "I", "X", "_", "C", "P", "P" >>, conf_name |-> "prefix_command_cpp"],
     [env_name |-> << >>, conf_name |-> ""],
     [env_name |-> << "B", "A", "S", "E", "D", "I", "R" >>, conf_name |-> "base_dir"],
     [env_name |-> << "C", "O", "M", "P", "I", "L", "E", "R", "C", "H", "E", "C", "K" >>, conf_name |-> "compiler_check"],
     [env_name |-> << >>, conf_name |-> ""],
     [env_name |-> << "E", "X", "T", "R", "A", "F", "I", "L", "E", "S" >>, conf_name |-> "extra_files_to_hash"],
     [env_name |-> << "D", "E", "P", "E", "N", "D" >>, conf_name |-> "depend_mode"],
     [env_name |-> << "R", "E", "C", "A", "C", "H", "E" >>, conf_name |-> "recache"],
     [env_name |-> << "C", "O", "M", "P", "R", "E", "S", "S" >>, conf_name |-> "compression"],
     [env_name |-> << "M", "E", "M", "C", "A", "C", "H", "E", "D", "_", "C", "O", "N", "F" >>, conf_name |-> "memcached_conf"],
     [env_name |-> << "D", "E", "B", "U", "G" >>, conf_name |-> "debug"],
     [env_name |-> << >>, conf_name |-> ""],
     [env_name |-> << "L", "O", "G", "F", "I", "L", "E" >>, conf_name |-> "log_file"],
     [env_name |-> << "R", "E", "A", "D", "O", "N", "L", "Y" >>, conf_name |-> "read_only"],
     [env_name |-> << "E", "X", "T", "E", "N", "S", "I", "O", "N" >>, conf_name |-> "cpp_extension"],
     [env_name |-> << "U", "M", "A", "S", "K" >>, conf_name |-> "umask"],
     [env_name |-> << >>, conf_name |-> ""],
     [env_name |-> << "H", "A", "S", "H", "D", "I", "R" >>, conf_name |-> "hash_dir"],
     [env_name |-> << "H", "A", "R", "D", "L", "I", "N", "K" >>, conf_name |-> "hard_link"],
     [env_name |-> << >>, conf_name |-> ""],
     [env_name |-> << "S", "L", "O", "P", "P", "I", "N", "E", "S", "S" >>, conf_name |-> "sloppiness"],
     [env_name |-> << >>, conf_name |-> ""],
     [env_name |-> << "T", "E", "M", "P", "D", "I", "R" >>, conf_name |-> "temporary_dir"],
     [env_name |-> << "I", "G", "N", "O", "R", "E", "H", "E", "A", "D", "E", "R", "S" >>, conf_name |-> "ignore_headers_in_manifest"],
     [env_name |-> << "M", "E", "M", "C", "A", "C", "H", "E", "D", "_", "O", "N", "L", "Y" >>, conf_name |-> "memcached_only"],
     [env_name |-> << "R", "E", "A", "D", "O", "N", "L", "Y", "_", "D", "I", "R", "E", "C", "T" >>, conf_name |-> "read_only_direct"],
     [env_name |-> << >>, conf_name |-> ""],
     [env_name |-> << >>, conf_name |-> ""],
     [env_name |-> << "R", "E", "A", "D", "O", "N", "L", "Y", "_", "M", "E", "M", "C", "A", "C", "H", "E", "D" >>, conf_name |-> "read_only_memcached"],
     [env_name |-> << "L", "I", "M", "I", "T", "_", "M", "U", "L", "T", "I", "P", "L", "E" >>, conf_name |-> "limit_multiple"],
     [env_name |-> << "S", "T", "A", "T", "S" >>, conf_name |-> "stats"],
     [env_name |-> << >>, conf_name |-> ""],
     [env_name |-> << "N", "L", "E", "V", "E", "L", "S" >>, conf_name |-> "cache_dir_levels"],
     [env_name |-> << "C", "O", "M", "M", "E", "N", "T", "S" >>, conf_name |-> "keep_comments_cpp"],
     [env_name |-> << >>, conf_name |-> ""],
     [env_name |-> << >>, conf_name |-> ""],
     [env_name |-> << >>, conf_name |-> ""],
     [env_name |-> << >>, conf_name |-> ""],
     [env_name |-> << "C", "O", "M", "P", "R", "E", "S", "S", "L", "E", "V", "E", "L" >>, conf_name |-> "compression_level"],
     [env_name |-> << >>, conf_name |-> ""],
     [env_name |-> << "P", "C", "H", "_", "E", "X", "T", "S", "U", "M" >>, conf_name |-> "pch_external_checksum"] >>

wordlist(key) == WordList[key + 1]

\* envtoconfitems_hash that reads asso_values[str[4]] without the + 1
envtoconfitems_hash_no_offset(str, len) ==
  IF len \in 5..10
  THEN len + asso_values(Ord(str[5])) + asso_values(Ord(str[1]))
  ELSE IF len \in 1..4
  THEN len + asso_values(Ord(str[1]))
  ELSE len + asso_values(Ord(str[11])) + asso_values(Ord(str[5]))
         + asso_values(Ord(str[1]))

\* envtoconfitems_hash: the switch on len with its fall-throughs; str[i] of
\* the code is str[i + 1] here.  default is taken for every len outside 1..10
envtoconfitems_hash(str, len) ==
  IF len \in 5..10
  THEN len + asso_values(Ord(str[5]) + 1) + asso_values(Ord(str[1]))
  ELSE IF len \in 1..4
  THEN len + asso_values(Ord(str[1]))
  ELSE len + asso_values(Ord(str[11])) + asso_values(Ord(str[5]) + 1)
         + asso_values(Ord(str[1]))

\* *str == *s && !strcmp(str + 1, s + 1), for a str that is not empty: an
\* empty s starts with the terminator, which no character of str equals
same_string(str, s) ==
  /\ s # << >>
  /\ Head(str) = Head(s)
  /\ Tail(str) = Tail(s)

\* envtoconfitems_get: << key >> for &wordlist[key], << >> for null
envtoconfitems_get(str, len) ==
  IF len <= MAX_WORD_LENGTH /\ len >= MIN_WORD_LENGTH
  THEN LET key == envtoconfitems_hash(str, len)
       IN  IF key <= MAX_HASH_VALUE /\ same_string(str, wordlist(key).env_name)
           THEN << key >>
           ELSE << >>
  ELSE << >>

envtoconfitems_count == 37

\* no call yet
NoLookup == [op |-> "none", str |-> << >>, len |-> 0, result |-> << >>, count |-> 0]

\* ------------------------------------------------------------------------
\* Operations
\* ------------------------------------------------------------------------

\* the arguments of a call besides the digest
NoArg == [only_if_missing |-> FALSE, value |-> << >>]

PutArg(value, only_if_missing) ==
  [only_if_missing |-> only_if_missing, value |-> << value >>]

\* the record kept of a call: its arguments, how connect() went (c), the
\* commands sent, the replies received and the value returned
Call(op, digest, arg, result, value, c, sent, reply, existsReply) ==
  [op |-> op, digest |-> digest, arg |-> arg, result |-> result,
   value |-> value, how |-> c.how, ret |-> c.ret, attempts |-> c.attempts,
   reconnects |-> c.reconnects, cause |-> c.cause, sent |-> c.sent \o sent,
   reply |-> reply, existsReply |-> existsReply]

NoConnect == ConnectResult("returned", FALSE, "null", FALSE, FALSE, 0, 0, << >>, "none")

NotSent == [type |-> "-", str |-> << >>, integer |-> 0]

\* the other clients of the server
RaceClients == {"A", "B"}

\* a client that is not inside put(): pc is its place in put(), "exists"
\* before the EXISTS, "set" before the SET
IdleClient == [pc |-> "idle", value |-> << >>, ctx |-> "ok", result |-> "none"]

Init ==
  /\ life = "unconstructed"
  /\ url \in Urls
  /\ attributes \in AttributeMaps
  /\ m_url = << >>
  /\ m_connect_timeout = << >>
  /\ m_operation_timeout = << >>
  /\ m_username = << >>
  /\ m_password = << >>
  /\ m_context = "null"
  /\ m_connected = FALSE
  /\ m_invalid = FALSE
  /\ store = [k \in Keys |-> << >>]
  /\ last = Call("none", "", NoArg, "none", << >>, NoConnect, << >>, NotSent, NotSent)
  /\ authFailed = FALSE
  /\ clients = [c \in RaceClients |-> IdleClient]
  /\ hash = hash_init
  /\ env = NoLookup

\* RedisStorage::RedisStorage
Construct ==
  /\ life = "unconstructed"
  /\ LET ct == parse_connect_timeout(attributes)
         ot == parse_operation_timeout(attributes)
     IN  IF ct.threw \/ ot.threw
         THEN /\ life' = "ctor_threw"
              /\ last' = Call("construct", "", NoArg, "threw", << >>, NoConnect,
                              << >>, NotSent, NotSent)
              /\ UNCHANGED << m_url, m_connect_timeout, m_operation_timeout,
                              m_username, m_password >>
         ELSE /\ life' = "alive"
              /\ m_url' = url
              /\ m_connect_timeout' = ct.val
              /\ m_operation_timeout' = ot.val
              /\ m_username' = parse_username(attributes)
              /\ m_password' = parse_password(attributes)
              /\ last' = Call("construct", "", NoArg, "ok", << >>, NoConnect,
                              << >>, NotSent, NotSent)
  /\ m_context' = "null"
  /\ m_connected' = FALSE
  /\ m_invalid' = FALSE
  /\ UNCHANGED << url, attributes, store, authFailed, others >>

\* the part every operation shares: what is left behind when connect()
\* did not return true
ConnectFailed(op, digest, arg, c) ==
  /\ ~(c.how = "returned" /\ c.ret)
  /\ life' = IF c.how = "crashed" THEN "crashed" ELSE life
  /\ m_context' = c.ctx
  /\ m_connected' = c.connected
  /\ m_invalid' = c.invalid
  /\ authFailed' = (authFailed \/ c.cause = "auth")
  /\ last' = Call(op, digest, arg,
                  IF c.how = "returned" THEN "error" ELSE c.how,
                  << >>, c, << >>, NotSent, NotSent)
  /\ UNCHANGED << config, store, others >>

\* what is left behind by an operation that got past connect()
Done(op, digest, arg, c, ctx, st, result, value, sent, reply, existsReply) ==
  /\ c.how = "returned" /\ c.ret
  /\ life' = life
  /\ m_context' = ctx
  /\ m_connected' = c.connected
  /\ m_invalid' = c.invalid
  /\ authFailed' = (authFailed \/ c.cause = "auth")
  /\ store' = st
  /\ last' = Call(op, digest, arg, result, value, c, sent, reply, existsReply)
  /\ UNCHANGED << config, others >>

\* the result of get() from the reply; garbage is the value the
\* uninitialised local `missing` happens to hold
get_result(reply, garbage) ==
  LET found   == reply.type = "STRING"
      missing == IF reply.type = "NIL" THEN TRUE ELSE garbage
  IN  IF found THEN [result |-> "found", value |-> reply.str]
      ELSE IF missing THEN [result |-> "notfound", value |-> << >>]
      ELSE [result |-> "error", value |-> << >>]

\* the distinct ways a connect() call can go in the current state; an early
\* return meets nothing outside the program
ConnectOutcomes ==
  IF connect_early(m_connected, m_invalid) # "go"
  THEN {connect([reconnect |-> FALSE, conn |-> "ok", deref |-> "continue",
                 auth |-> "ok"])}
  ELSE {connect(e) : e \in ConnectEnv}

\* RedisStorage::get
Get(digest) ==
  /\ life = "alive"
  /\ \E c \in ConnectOutcomes :
       \/ ConnectFailed("get", digest, NoArg, c)
       \/ LET key == get_key_string(digest)
          IN  \E o \in {[r |-> redisCommand(c.ctx, "GET", key, "", store, mode),
                         x |-> get_result(
                           redisCommand(c.ctx, "GET", key, "", store, mode).reply, g)] :
                        mode \in ReplyModes, g \in BOOLEAN} :
                Done("get", digest, NoArg, c, o.r.ctx, o.r.store, o.x.result,
                     o.x.value, << Cmd("GET", key) >>, o.r.reply, NotSent)

\* the count put() reads from the reply to EXISTS
exists_count(reply) == IF reply.type = "INTEGER" THEN reply.integer ELSE 0

\* put_skips_set that never skips
put_never_skips(count) == FALSE

\* put() returns false without sending SET
put_skips_set(count) == count > 0

\* the result of put() from the reply to SET
put_result(reply) == IF reply.type = "STATUS" THEN "true" ELSE "error"

\* RedisStorage::put
Put(digest, value, only_if_missing) ==
  /\ life = "alive"
  /\ \E c \in ConnectOutcomes :
       LET key == get_key_string(digest)
           arg == PutArg(value, only_if_missing)
           chk == IF only_if_missing THEN << Cmd("EXISTS", key) >> ELSE << >>
       IN  \/ ConnectFailed("put", digest, arg, c)
           \/ \E r1 \in IF only_if_missing
                        THEN {redisCommand(c.ctx, "EXISTS", key, "", store, mode) :
                                mode \in ReplyModes}
                        ELSE {[reply |-> NotSent, ctx |-> c.ctx, store |-> store]} :
                IF only_if_missing /\ put_skips_set(exists_count(r1.reply))
                THEN Done("put", digest, arg, c, r1.ctx, r1.store, "false",
                          << >>, chk, NotSent, r1.reply)
                ELSE \E r2 \in {redisCommand(r1.ctx, "SET", key, value, r1.store, mode) :
                                  mode \in ReplyModes} :
                       Done("put", digest, arg, c, r2.ctx, r2.store,
                            put_result(r2.reply), << >>,
                            chk \o << Cmd("SET", key) >>, r2.reply, r1.reply)

\* the result of remove() from the reply; garbage as in get_result
remove_result(reply, garbage) ==
  LET removed == reply.type = "INTEGER" /\ reply.integer > 0
      missing == IF reply.type = "INTEGER" /\ ~(reply.integer > 0)
                 THEN TRUE ELSE garbage
  IN  IF removed THEN "true" ELSE IF missing THEN "false" ELSE "error"

\* RedisStorage::remove
Remove(digest) ==
  /\ life = "alive"
  /\ \E c \in ConnectOutcomes :
       \/ ConnectFailed("remove", digest, NoArg, c)
       \/ LET key == get_key_string(digest)
          IN  \E o \in {[r |-> redisCommand(c.ctx, "DEL", key, "", store, mode),
                         result |-> remove_result(
                           redisCommand(c.ctx, "DEL", key, "", store, mode).reply, g)] :
                        mode \in ReplyModes, g \in BOOLEAN} :
                Done("remove", digest, NoArg, c, o.r.ctx, o.r.store, o.result,
                     << >>, << Cmd("DEL", key) >>, o.r.reply, NotSent)

\* RedisStorage::~RedisStorage
Destroy ==
  /\ life = "alive"
  /\ life' = "destroyed"
  /\ m_connected' = disconnect(m_connected)
  /\ m_context' = "null"
  /\ last' = Call("destroy", "", NoArg, "ok", << >>, NoConnect, << >>,
                  NotSent, NotSent)
  /\ UNCHANGED << config, m_invalid, store, authFailed, others >>

Next ==
  \/ Construct
  \/ \E d \in Asked : Get(d)
  \/ \E d \in Asked, v \in Values, oim \in BOOLEAN : Put(d, v, oim)
  \/ \E d \in Asked : Remove(d)
  \/ Destroy

Spec == Init /\ [][Next]_vars

\* ------------------------------------------------------------------------
\* Properties
\* ------------------------------------------------------------------------

Ops == {"get", "put", "remove"}

\* the commands of a call other than the AUTH of its connect()
DataCmds(sent) == SelectSeq(sent, LAMBDA x : x.cmd # "AUTH")

\* the names of the commands of a call
CmdNames(sent) == {sent[i].cmd : i \in 1..Len(sent)}

\* connect() returned true in the last call
GotConnection == last.how = "returned" /\ last.ret

\* C1: get and remove on a connected backend return backend-error when the
\* reply is missing, an error or of an unexpected type; not-found only on a
\* nil reply (GET) or a deleted-count of 0 (DEL); found/true only on a string
\* reply (GET) or a deleted-count above 0 (DEL).
C1_ResultFollowsReply ==
  /\ (last.op = "get" /\ GotConnection) =>
       /\ (last.result = "found") = (last.reply.type = "STRING")
       /\ (last.result = "notfound") = (last.reply.type = "NIL")
       /\ (last.result = "error") = (last.reply.type \notin {"STRING", "NIL"})
  /\ (last.op = "remove" /\ GotConnection) =>
       /\ (last.result = "true") =
            (last.reply.type = "INTEGER" /\ last.reply.integer > 0)
       /\ (last.result = "false") =
            (last.reply.type = "INTEGER" /\ last.reply.integer = 0)
       /\ (last.result = "error") = (last.reply.type # "INTEGER")

\* C2: once an AUTH has failed, every later get, put and remove returns
\* backend-error and sends no command.
C2_AuthFailureIsTerminal ==
  [][(authFailed /\ last'.op \in Ops) =>
       (last'.result = "error" /\ last'.sent = << >>)]_vars

\* C3: a get, put or remove whose connect() did not produce a connection
\* returns backend-error, sends no command, raises nothing and does not
\* abort the process.
C3_UnconnectedIsSoftError ==
  (last.op \in Ops /\ ~GotConnection) =>
    (last.result = "error" /\ DataCmds(last.sent) = << >> /\ life = "alive")

\* C4: after a command of get, put or remove got no reply, the instance is
\* no longer Connected (and not Invalid), so that the next operation
\* reconnects.
C4_NoReplyDisconnects ==
  (last.op \in Ops /\ GotConnection
     /\ (last.reply.type = "NULL" \/ last.existsReply.type = "NULL")) =>
    (~m_connected /\ ~m_invalid)

C6_InvalidNeverReconnects ==
  [][m_invalid =>
       /\ m_invalid'
       /\ last'.op \in Ops => (last'.attempts = 0 /\ last'.reconnects = 0)]_vars

\* an operation ran on an instance that was already invalid and unconnected
C6_Witness ==
  /\ m_invalid /\ ~m_connected /\ life = "alive"
  /\ last.op \in Ops /\ last.cause = "none" /\ last.result = "error"
  /\ last.attempts = 0

\* C7: construction makes no connection attempt; the first operation after
\* it runs the connection code of connect(); and an operation that finds the
\* instance Connected makes no connection or reconnection attempt.
C7_LazyConnectAndReuse ==
  [][/\ last'.op = "construct" =>
          (last'.attempts = 0 /\ last'.sent = << >> /\ m_context' = "null"
             /\ ~m_connected')
     /\ (last.op = "construct" /\ last'.op \in Ops) =>
          (last'.attempts = 1 \/ last'.cause = "url" \/ last'.how = "threw")
     /\ (m_connected /\ last'.op \in Ops) =>
          (last'.attempts = 0 /\ last'.reconnects = 0 /\ last'.ret
             /\ m_context' # "null")]_vars

\* an operation sent its command over a connection made by an earlier one
C7_Witness ==
  /\ m_connected /\ ~m_invalid /\ last.op \in Ops
  /\ last.attempts = 0 /\ last.reconnects = 0 /\ GotConnection
  /\ DataCmds(last.sent) # << >>

\* C8: put with only_if_missing on a key EXISTS reports present sends no
\* SET, leaves the key space unchanged and returns false; put without
\* only_if_missing sends SET and no EXISTS.
C8_OnlyIfMissing ==
  [][/\ (last'.op = "put" /\ last'.arg.only_if_missing
           /\ last'.existsReply.type = "INTEGER"
           /\ last'.existsReply.integer > 0) =>
          (last'.result = "false" /\ "SET" \notin CmdNames(last'.sent)
             /\ store' = store)
     /\ (last'.op = "put" /\ ~last'.arg.only_if_missing
           /\ last'.how = "returned" /\ last'.ret) =>
          (DataCmds(last'.sent) = << Cmd("SET", get_key_string(last'.digest)) >>
             /\ last'.existsReply = NotSent)]_vars

\* put(d1, v2, only_if_missing) met v1 under the key and left it there
C8_Witness ==
  /\ last.op = "put" /\ last.arg.only_if_missing
  /\ last.arg.value = << "v2" >> /\ last.result = "false"
  /\ last.existsReply.integer = 1
  /\ store[get_key_string(last.digest)] = << "v1" >>

\* C9: no get, put or remove fails, raises or changes the state of the
\* instance because of the configuration: a bad URL is reported by the
\* constructor.
C9_ConfigFailsOnlyAtConstruction ==
  last.op \in Ops => (last.cause # "url" /\ last.how # "threw")

KnownAttributes == {"connect-timeout", "operation-timeout", "username", "password"}

\* C10: an attribute map with a key outside connect-timeout,
\* operation-timeout, username and password yields no usable instance.
C10_UnknownAttributeRejected ==
  (DOMAIN attributes \ KnownAttributes # {}) =>
    life \in {"unconstructed", "ctor_threw"}

\* C15: the instance is in exactly one of Disconnected, Connected and
\* Invalid: m_connected and m_invalid are never both set.
C15_ConnectedXorInvalid == ~(m_connected /\ m_invalid)

\* SET was among the commands of the last call
SetSent == "SET" \in CmdNames(last.sent)

\* the EXISTS of the last call reported a positive count
ExistsPositive ==
  /\ last.arg.only_if_missing
  /\ last.existsReply.type = "INTEGER"
  /\ last.existsReply.integer > 0

\* C17: put returns true exactly when SET was sent and answered with a
\* status reply, false exactly when only_if_missing is set and EXISTS
\* reported a positive count, and backend-error in every other case; an
\* EXISTS that got no reply or an error reply does not stop the SET.
C17_PutResult ==
  last.op = "put" =>
    /\ (last.result = "true") = (SetSent /\ last.reply.type = "STATUS")
    /\ (last.result = "false") = ExistsPositive
    /\ (last.result = "error") =
         (~(SetSent /\ last.reply.type = "STATUS") /\ ~ExistsPositive)
    /\ (last.existsReply.type \in {"NULL", "ERROR"}) => SetSent

\* m_context->errstr was read in the last call while m_context was null:
\* redisConnect* returned no context, and connect() either died there or
\* went on to mark the instance invalid
NullContextRead ==
  /\ last.op \in Ops
  /\ last.attempts = 1
  /\ \/ last.how = "crashed"
     \/ last.cause = "connect" /\ m_context = "null"

\* C18: m_context is non-null wherever connect, get, put or remove reads
\* through it.
C18_ContextNeverNullWhenRead == ~NullContextRead

\* ------------------------------------------------------------------------
\* One backend on redis://h, asked about every digest
\* ------------------------------------------------------------------------

InitKeys ==
  /\ Init
  /\ url = << prefix, "h" >>
  /\ attributes = [k \in {} |-> << >>]

NextKeys ==
  \/ Construct
  \/ \E d \in Digests : Get(d)
  \/ \E d \in Digests, v \in Values, oim \in BOOLEAN : Put(d, v, oim)
  \/ \E d \in Digests : Remove(d)
  \/ Destroy

SpecKeys == InitKeys /\ [][NextKeys]_vars

\* the server answered the GET of the call recorded in rec
GetAnswered(rec) == rec.op = "get" /\ rec.reply.type \in {"STRING", "NIL"}

\* C19: with the server answering, a get(d) right after a put(d, v) that
\* returned true returns found(v), and a get(d) right after a remove(d) that
\* returned true returns not-found; every data command of an operation on d
\* carries the key "ccache:<d>"; an operation on another digest leaves what
\* is stored for d as it was.
C19_RoundTripPerKey ==
  [][ /\ ( /\ last.op = "put" /\ last.result = "true"
           /\ GetAnswered(last') /\ last'.digest = last.digest )
         => (last'.result = "found" /\ last'.value = last.arg.value)
      /\ ( /\ last.op = "remove" /\ last.result = "true"
           /\ GetAnswered(last') /\ last'.digest = last.digest )
         => last'.result = "notfound"
      /\ last'.op \in Ops =>
           /\ \A i \in 1..Len(DataCmds(last'.sent)) :
                DataCmds(last'.sent)[i].key = << "ccache", ":", last'.digest >>
           /\ \A d \in Digests \ {last'.digest} :
                store'[<< "ccache", ":", d >>] = store[<< "ccache", ":", d >>]
    ]_vars

\* d2 was found with the value put for it while d1 holds another value
C19_Witness ==
  /\ last.op = "get" /\ last.digest = "d2"
  /\ last.result = "found" /\ last.value = << "v2" >>
  /\ store[get_key_string("d1")] = << "v1" >>

\* ------------------------------------------------------------------------
\* Two clients putting the same key with only_if_missing
\* ------------------------------------------------------------------------

\* the key both clients put
RaceKey == get_key_string("d1")

\* put(d1, v, true) is entered and connect() returns true
RaceBegin(c, v) ==
  /\ clients[c].pc \in {"idle", "done"}
  /\ clients' = [clients EXCEPT ![c] =
       [pc |-> "exists", value |-> << v >>, ctx |-> "ok", result |-> "none"]]
  /\ UNCHANGED << instance, store, hash, env >>

\* put(): EXISTS is sent and its reply read
RaceExists(c) ==
  /\ clients[c].pc = "exists"
  /\ \E r \in {redisCommand(clients[c].ctx, "EXISTS", RaceKey, "", store, mode) :
                 mode \in ReplyModes} :
       /\ store' = r.store
       /\ clients' = [clients EXCEPT ![c] =
            IF put_skips_set(exists_count(r.reply))
            THEN [@ EXCEPT !.pc = "done", !.ctx = r.ctx, !.result = "false"]
            ELSE [@ EXCEPT !.pc = "set", !.ctx = r.ctx]]
  /\ UNCHANGED << instance, hash, env >>

\* put(): SET is sent and its reply read
RaceSet(c) ==
  /\ clients[c].pc = "set"
  /\ \E r \in {redisCommand(clients[c].ctx, "SET", RaceKey,
                            clients[c].value[1], store, mode) :
                 mode \in ReplyModes} :
       /\ store' = r.store
       /\ clients' = [clients EXCEPT ![c] =
            [@ EXCEPT !.pc = "done", !.ctx = r.ctx,
                      !.result = put_result(r.reply)]]
  /\ UNCHANGED << instance, hash, env >>

InitRace ==
  /\ Init
  /\ url = << prefix, "h" >>
  /\ attributes = [k \in {} |-> << >>]

NextRace ==
  \/ \E c \in RaceClients, v \in Values : RaceBegin(c, v)
  \/ \E c \in RaceClients : RaceExists(c)
  \/ \E c \in RaceClients : RaceSet(c)

SpecRace == InitRace /\ [][NextRace]_vars

\* C16: with both clients putting the same key with only_if_missing, a
\* value that is stored when a SET arrives is never overwritten.
C16_StoredValueNeverOverwritten ==
  [][ store[RaceKey] # << >> => store'[RaceKey] = store[RaceKey] ]_vars

\* ------------------------------------------------------------------------
\* The log
\* ------------------------------------------------------------------------

\* timeval_to_string: seconds with three decimals, then 's'
timeval_to_string(tv) ==
  LET ms == tv.tv_sec * 1000 + CDiv(tv.tv_usec, 1000)
      a  == IF ms < 0 THEN 0 - ms ELSE ms
  IN  (IF ms < 0 THEN << "-" >> ELSE << >>)
        \o DecimalString(a \div 1000) \o << "." >>
        \o DecimalString((a \div 100) % 10) \o DecimalString((a \div 10) % 10)
        \o DecimalString(a % 10) \o << "s" >>

\* one LOG call: the format string and its arguments
Line(format, args) == [format |-> format, args |-> args]

\* passwords an instance may be configured with
Passwords == {"p", "q"}

\* auth_log that writes the password where the code writes the mask
auth_log_plain(username, password, reply) ==
  << Line("Redis AUTH {} {}", << << username >>, << password >> >>) >>
    \o ( IF reply.type = "NULL"
         THEN << Line("Failed to auth {} in redis", << << username >> >>) >>
         ELSE IF reply.type = "ERROR"
         THEN << Line("Failed to auth {} in redis: {}",
                      << << username >>, reply.str >>) >>
         ELSE << >> )

\* what connect() logs around AUTH
auth_log(username, password, reply) ==
  << Line("Redis AUTH {} {}", << << username >>, << "*****" >> >>) >>
    \o ( IF reply.type = "NULL"
         THEN << Line("Failed to auth {} in redis", << << username >> >>) >>
         ELSE IF reply.type = "ERROR"
         THEN << Line("Failed to auth {} in redis: {}",
                      << << username >>, reply.str >>) >>
         ELSE << >> )

\* the reply AUTH got in the call recorded in rec, read in the state the
\* call left: a lost reply leaves err set on m_context
AuthReply(rec) ==
  IF rec.cause # "auth" THEN [type |-> "STATUS", str |-> << >>, integer |-> 0]
  ELSE IF m_context = "err" THEN NoReply
  ELSE [type |-> "ERROR", str |-> << >>, integer |-> 0]

\* what connect() logged in the call recorded in rec, for an instance with
\* this password; set_timeout_ok is what redisSetTimeout returned
connect_log(rec, password, set_timeout_ok) ==
  LET u        == SplitUrl(Tail(m_url))
      username == IF m_username # << >> THEN m_username[1] ELSE "default"
      early    == rec.attempts = 0 /\ rec.reconnects = 0
                    /\ rec.how = "returned" /\ rec.cause = "none"
      reconnected == rec.reconnects = 1 /\ rec.attempts = 0
                       /\ rec.how = "returned" /\ rec.ret
      timeout  == IF m_connect_timeout # << >>
                  THEN << Line("Redis connect timeout {}",
                               << timeval_to_string(m_connect_timeout[1]) >>) >>
                  ELSE << >>
      ok       == IF u.host # << >>
                  THEN Line("Redis connect tcp {}:{} OK",
                            << u.host, IF u.port = << >>
                                       THEN DecimalString(DefaultPort)
                                       ELSE DecimalString(stoi(u.port).val) >>)
                  ELSE Line("Redis connect unix {} OK", << u.sock >>)
      optime   == IF m_operation_timeout # << >>
                  THEN << Line("Redis timeout {}",
                               << timeval_to_string(m_operation_timeout[1]) >>) >>
                         \o ( IF set_timeout_ok THEN << >>
                              ELSE << Line("Failed to set timeout", << >>) >> )
                  ELSE << >>
  IN  IF early \/ reconnected THEN << >>
      ELSE ( IF rec.reconnects = 1
             THEN << Line("Redis reconnect err: {}", << << "errstr" >> >>) >>
             ELSE << >> )
        \o ( IF rec.how = "crashed" /\ rec.attempts = 0 THEN << >>
             ELSE timeout
               \o ( IF rec.how = "threw" THEN << >>
                    ELSE IF rec.cause = "url"
                    THEN << Line("Redis invalid url: {}", << m_url >>) >>
                    ELSE IF rec.how = "crashed" THEN << >>
                    ELSE IF rec.cause = "connect"
                    THEN << Line("Redis connect {} err: {}",
                                 << m_url, << "errstr" >> >>) >>
                    ELSE << ok >> \o optime
                           \o ( IF password # << >>
                                THEN auth_log(username, password[1], AuthReply(rec))
                                ELSE << >> ) ) )

\* what is logged when a command got no reply or an error reply
failure_log(format, key, reply) ==
  IF reply.type = "NULL" THEN << Line(format, << key >>) >>
  ELSE IF reply.type = "ERROR" THEN << Line(format \o ": {}", << key, reply.str >>) >>
  ELSE << >>

\* what get(), put() or remove() logged after connect() in the call
\* recorded in rec
operation_log(rec) ==
  LET key == get_key_string(rec.digest)
  IN  IF ~(rec.how = "returned" /\ rec.ret) THEN << >>
      ELSE IF rec.op = "get"
      THEN << Line("Redis GET {}", << key >>) >>
             \o failure_log("Failed to get {} from redis", key, rec.reply)
      ELSE IF rec.op = "remove"
      THEN << Line("Redis DEL {}", << key >>) >>
             \o failure_log("Failed to del {} in redis", key, rec.reply)
      ELSE ( IF rec.arg.only_if_missing
             THEN << Line("Redis EXISTS {}", << key >>) >>
                    \o failure_log("Failed to check {} in redis", key,
                                   rec.existsReply)
             ELSE << >> )
        \o ( IF "SET" \in CmdNames(rec.sent)
             THEN << Line("Redis SET {}", << key >>) >>
                    \o failure_log("Failed to set {} to redis", key, rec.reply)
                    \o ( IF rec.reply.type \in {"NULL", "ERROR", "STATUS"}
                         THEN << >>
                         ELSE << Line("Failed to set {} to redis: {}",
                                      << key, << rec.reply.type >> >>) >> )
             ELSE << >> )

\* the log of the call recorded in rec
call_log(rec, password, set_timeout_ok) ==
  connect_log(rec, password, set_timeout_ok) \o operation_log(rec)

\* C20: the log of a call of get, put or remove, connect() included, is
\* the same for an instance configured with any other password that gets
\* the same replies.
C20_LogIgnoresPassword ==
  (last.op \in Ops /\ m_password # << >>) =>
    \A q \in Passwords, set_timeout_ok \in BOOLEAN :
      call_log(last, m_password, set_timeout_ok)
        = call_log(last, << q >>, set_timeout_ok)

\* an AUTH with a configured password was refused and logged
C20_Witness ==
  /\ last.op \in Ops /\ m_password # << >>
  /\ "AUTH" \in CmdNames(last.sent)
  /\ last.cause = "auth"
  /\ Len(call_log(last, m_password, TRUE)) >= 3

\* ------------------------------------------------------------------------
\* The hasher in use
\* ------------------------------------------------------------------------

\* hash_checksum: select the algorithm, before anything is absorbed
HashChecksum(a) ==
  /\ hash.lastop \in {"init", "reset", "checksum"}
  /\ hash' = [hash EXCEPT !.alg = a, !.prevop = hash.lastop, !.lastop = "checksum"]
  /\ UNCHANGED << instance, store, clients, env >>

\* hash_string
HashString(c) ==
  /\ hash.alg # "unset"
  /\ hash.lastop # "freed"
  /\ Len(hash.chunks) < MaxChunks
  /\ hash' = [hash EXCEPT !.st = hash_update(@, c),
                          !.chunks = Append(@, c),
                          !.between = @ \/ hash.lastop = "result",
                          !.prevop = hash.lastop, !.lastop = "string"]
  /\ UNCHANGED << instance, store, clients, env >>

\* hash_result
HashResult ==
  /\ hash.alg # "unset"
  /\ hash.lastop # "freed"
  /\ hash' = [hash EXCEPT !.result = hash_result_string(hash.alg, hash.st),
                          !.st = hash_after_result(@),
                          !.observed = TRUE,
                          !.prevop = hash.lastop, !.lastop = "result"]
  /\ UNCHANGED << instance, store, clients, env >>

\* hash_reset: the hasher is fresh again, the algorithm stays selected
HashReset ==
  /\ hash.lastop # "freed"
  /\ hash' = [hash_init EXCEPT !.alg = hash.alg, !.prevop = hash.lastop,
                               !.lastop = "reset"]
  /\ UNCHANGED << instance, store, clients, env >>

\* hash_free
HashFree ==
  /\ hash.lastop # "freed"
  /\ hash' = [hash EXCEPT !.prevop = hash.lastop, !.lastop = "freed"]
  /\ UNCHANGED << instance, store, clients, env >>

InitHash ==
  /\ Init
  /\ url = << prefix, "h" >>
  /\ attributes = [k \in {} |-> << >>]

NextHash ==
  \/ \E a \in Algorithms : HashChecksum(a)
  \/ \E c \in Chunks : HashString(c)
  \/ HashResult
  \/ HashReset
  \/ HashFree

SpecHash == InitHash /\ [][NextHash]_vars

\* the hasher after absorbing the chunks one call each, with no hash_result
RECURSIVE Replay(_, _)
Replay(st, chunks) ==
  IF chunks = << >> THEN st ELSE Replay(hash_update(st, Head(chunks)), Tail(chunks))

\* the chunks as one byte sequence
RECURSIVE Concat(_)
Concat(chunks) ==
  IF chunks = << >> THEN << >> ELSE Head(chunks) \o Concat(Tail(chunks))

\* C11: once hash_string has followed a hash_result, the hasher gives the
\* result string it would give had the same hash_string calls been made
\* with no hash_result among them, for every algorithm.
C11_ResultLeavesStateAlone ==
  hash.between =>
    hash_result_string(hash.alg, hash.st)
      = hash_result_string(hash.alg, Replay(hash_fresh, hash.chunks))

\* hash_result was called, then hash_string with bytes waiting for a full
\* block, then hash_result again
C11_Witness ==
  /\ hash.between /\ hash.lastop = "result" /\ hash.prevop = "string"
  /\ Len(hash.chunks) = 2 /\ Len(hash.chunks[1]) = 1
  /\ hash.result = hash_result_string(hash.alg, hash.st)

\* C12: a hash_result that directly follows a hash_result returns the
\* same string.
C12_ResultIdempotent ==
  [][ (hash.lastop = "result" /\ hash'.lastop = "result")
        => hash'.result = hash.result ]_vars

\* hash_result was called twice in a row with bytes waiting for a full block
C12_Witness ==
  /\ hash.lastop = "result" /\ hash.prevop = "result"
  /\ hash.st.buf # << >>

\* C13: with no hash_result among them, hash_string calls give the result
\* string that one hash_string call with the concatenated bytes gives.
C13_ChunkingIrrelevant ==
  (~hash.observed /\ hash.alg # "unset") =>
    hash_result_string(hash.alg, hash.st)
      = hash_result_string(hash.alg, hash_update(hash_fresh, Concat(hash.chunks)))

\* two hash_string calls whose first leaves a byte waiting
C13_Witness ==
  /\ ~hash.observed /\ hash.alg # "unset"
  /\ Len(hash.chunks) = 2
  /\ Len(hash.chunks[1]) % BlockSize # 0 /\ hash.chunks[2] # << >>

\* ------------------------------------------------------------------------
\* Looking up environment variable names
\* ------------------------------------------------------------------------

\* the names in the table
Names == {WordList[i].env_name : i \in 1..Len(WordList)} \ {<< >>}

\* longest of the short strings looked up
MaxShortLen == 3

ShortChars == {"C", "D", "I", "R"}

\* characters put in place of one character of a name, or after a name
OtherChars == {"C", "F", "c", "0xFF"}

\* the strings looked up: the names, their prefixes, the names with one
\* character replaced or one character added, and all short strings
EnvInputs ==
  Names
    \cup UNION {{SubSeq(n, 1, k) : k \in 0..Len(n)} : n \in Names}
    \cup UNION {{[n EXCEPT ![i] = c] : i \in 1..Len(n), c \in OtherChars} : n \in Names}
    \cup UNION {{Append(n, c) : c \in OtherChars} : n \in Names}
    \cup StringsUpTo(ShortChars, MaxShortLen)

\* envtoconfitems_get(s, strlen(s))
EnvGet(s) ==
  /\ env' = [env EXCEPT !.op = "get", !.str = s, !.len = Len(s),
                        !.result = envtoconfitems_get(s, Len(s))]
  /\ UNCHANGED << instance, store, clients, hash >>

\* envtoconfitems_count()
EnvCount ==
  /\ env' = [env EXCEPT !.op = "count", !.count = envtoconfitems_count]
  /\ UNCHANGED << instance, store, clients, hash >>

InitEnv ==
  /\ Init
  /\ url = << prefix, "h" >>
  /\ attributes = [k \in {} |-> << >>]

NextEnv ==
  \/ \E s \in EnvInputs : EnvGet(s)
  \/ EnvCount

SpecEnv == InitEnv /\ [][NextEnv]_vars

\* C21: envtoconfitems_get of a name returns the entry with that name, of
\* any other string returns null, and so never returns an entry with an
\* empty name; the strings it accepts are as many as envtoconfitems_count
\* reports.
C21_LookupExact ==
  /\ env.op = "get" =>
       /\ env.str \in Names =>
            /\ env.result # << >>
            /\ wordlist(env.result[1]).env_name = env.str
       /\ env.str \notin Names => env.result = << >>
       /\ env.result # << >> => wordlist(env.result[1]).env_name # << >>
  /\ env.op = "count" =>
       /\ env.count = Cardinality(Names)
       /\ env.count = Cardinality({s \in EnvInputs :
                                     envtoconfitems_get(s, Len(s)) # << >>})

\* a name long enough for all three hashed positions was found
C21_Witness ==
  /\ env.op = "get" /\ env.len > 10
  /\ env.result # << >>
  /\ wordlist(env.result[1]).env_name = env.str

====
